---------------------------- MODULE Spec2Model ----------------------------
(***************************************************************************)
(* Jetstream compute scheduler (Scheduler::addModule, removeModule,        *)
(* destroy, compute, present, lockState and the rebuild pipeline           *)
(* removeInactive / arrangeDependencyOrder / createExecutionGraphs).       *)
(*                                                                         *)
(* Three threads share the scheduler: the application thread (mutations),  *)
(* the compute thread (compute()) and the present thread (present()).      *)
(* Every memory operation another thread can observe is one step.          *)
(***************************************************************************)
EXTENDS Integers, Sequences, FiniteSets, TLC

(***************************************************************************)
(* Bounds of the model.                                                    *)
(***************************************************************************)
\* Mutations the application thread issues in a run of Spec.
MaxOps == 3
\* Mutations the application thread issues in a run of SpecGraph.
MaxGraphOps == 4
\* Mutations the application thread issues in a run of SpecPresent.
MaxLiveOps == 2
\* Iterations of the ready-set loop followed in a run of SpecLoop.
MaxIterations == 13

(***************************************************************************)
(* Result codes and devices.                                               *)
(***************************************************************************)
\* Results a graph executor's computeReady() can give.
ReadyResults == {"SUCCESS", "TIMEOUT", "ERROR"}

\* Results a graph executor's compute() can give.
ComputeResults == {"SUCCESS", "TIMEOUT", "SKIP", "ERROR", "FATAL"}

\* Results of module.present().
PresentResults == {"SUCCESS", "ERROR"}

DeviceNone == "None"

\* The default-constructed std::string that operator[] of a map yields.
NoName == ""

(***************************************************************************)
(* The modules the application can register: the arguments of addModule.   *)
(* A record carries the tensor hash and the hash of its locale.  An input  *)
(* record is the copy of the output record of the module that produces it. *)
(***************************************************************************)
Rec(h, l) == [hash |-> h, locale |-> l]

NoPorts == <<>>

NamedCatalog ==
    [ A |-> [device |-> "CPU", compute |-> TRUE, present |-> FALSE,
             inputMap |-> NoPorts,
             outputMap |-> [out |-> Rec(1, 11)]],
      B |-> [device |-> "CUDA", compute |-> TRUE, present |-> TRUE,
             inputMap |-> [in |-> Rec(1, 11)],
             outputMap |-> [out |-> Rec(2, 12)]],
      C |-> [device |-> "CPU", compute |-> TRUE, present |-> FALSE,
             inputMap |-> [in |-> Rec(2, 12), aux |-> Rec(1, 11)],
             outputMap |-> NoPorts],
      X |-> [device |-> "CPU", compute |-> TRUE, present |-> FALSE,
             inputMap |-> [in |-> Rec(4, 14)],
             outputMap |-> [out |-> Rec(3, 13)]],
      Y |-> [device |-> "CPU", compute |-> TRUE, present |-> FALSE,
             inputMap |-> [in |-> Rec(3, 13)],
             outputMap |-> [out |-> Rec(4, 14)]],
      P |-> [device |-> "CPU", compute |-> TRUE, present |-> FALSE,
             inputMap |-> NoPorts,
             outputMap |-> [out |-> Rec(5, 15)]],
      Q |-> [device |-> "CPU", compute |-> TRUE, present |-> FALSE,
             inputMap |-> [in |-> Rec(5, 15)],
             outputMap |-> NoPorts],
      M |-> [device |-> "CPU", compute |-> TRUE, present |-> FALSE,
             inputMap |-> [in |-> Rec(5, 15)],
             outputMap |-> [out |-> Rec(5, 16)]],
      R |-> [device |-> "CPU", compute |-> TRUE, present |-> FALSE,
             inputMap |-> NoPorts,
             outputMap |-> [out |-> Rec(6, 17)]],
      S |-> [device |-> "CPU", compute |-> TRUE, present |-> FALSE,
             inputMap |-> [in |-> Rec(6, 17)],
             outputMap |-> NoPorts],
      T |-> [device |-> "CUDA", compute |-> TRUE, present |-> FALSE,
             inputMap |-> [in |-> Rec(6, 17)],
             outputMap |-> NoPorts],
      E |-> [device |-> "CPU", compute |-> TRUE, present |-> FALSE,
             inputMap |-> NoPorts,
             outputMap |-> [out |-> Rec(7, 21)]],
      F |-> [device |-> "CPU", compute |-> TRUE, present |-> FALSE,
             inputMap |-> [in |-> Rec(7, 21)],
             outputMap |-> [out |-> Rec(8, 22)]],
      G |-> [device |-> "CPU", compute |-> TRUE, present |-> FALSE,
             inputMap |-> [in |-> Rec(8, 22)],
             outputMap |-> [out |-> Rec(9, 23)]],
      H |-> [device |-> "CPU", compute |-> TRUE, present |-> FALSE,
             inputMap |-> [in |-> Rec(9, 23)],
             outputMap |-> NoPorts],
      V |-> [device |-> "CPU", compute |-> FALSE, present |-> TRUE,
             inputMap |-> [in |-> Rec(1, 11)],
             outputMap |-> NoPorts],
      Z |-> [device |-> "CPU", compute |-> TRUE, present |-> FALSE,
             inputMap |-> NoPorts,
             outputMap |-> [out |-> Rec(0, 31)]],
      W |-> [device |-> "CPU", compute |-> TRUE, present |-> FALSE,
             inputMap |-> [in |-> Rec(1, 11), aux |-> Rec(0, 31)],
             outputMap |-> NoPorts] ]

\* The modules, with a module registered under the empty string: a third
\* consumer, on the CPU, of the output of R.
Catalog ==
    (NoName :> [device |-> "CPU", compute |-> TRUE, present |-> FALSE,
                inputMap |-> [in |-> Rec(6, 17)],
                outputMap |-> NoPorts])
    @@ NamedCatalog

Names == DOMAIN Catalog

\* The modules of SpecGraph: a chain over two devices and a two-module cycle.
GraphNames == {"A", "B", "C", "X", "Y"}

\* The modules of SpecCluster: two unconnected producers with their
\* consumers, M writing its output in place (the hash of its input).
ClusterNames == {"P", "Q", "M", "R", "S", "T"}

\* The modules of SpecChain: a linear chain on one device.
ChainNames == {"E", "F", "G", "H"}

\* The chain, from its head to its tail.
Chain == <<"E", "F", "G", "H">>

\* The modules of SpecLoop.
LoopNames == {NoName, "R", "S", "T", "P", "Q"}

\* The modules of SpecPorts: a producer, its consumer with both capabilities,
\* a consumer that has the Present capability only, and a producer and a
\* consumer of a record whose hash is 0.
PortNames == {"A", "B", "V", "Z", "W"}

\* The modules of Spec, where the three threads interleave.
SchedNames == {"A", "B"}

InputMap(n) == IF n \in Names THEN Catalog[n].inputMap ELSE NoPorts

OutputMap(n) == IF n \in Names THEN Catalog[n].outputMap ELSE NoPorts

ModuleDevice(n) == IF n \in Names THEN Catalog[n].device ELSE DeviceNone

(***************************************************************************)
(* Helpers on sets and sequences.                                          *)
(***************************************************************************)
Range(s) == {s[i] : i \in 1..Len(s)}

\* The orders in which an unordered container holding S can be iterated.
Orders(S) == {s \in [1..Cardinality(S) -> S] : Range(s) = S}

RECURSIVE SumOver(_, _)
SumOver(S, f) ==
    IF S = {} THEN 0
    ELSE LET x == CHOOSE y \in S : TRUE IN f[x] + SumOver(S \ {x}, f)

(***************************************************************************)
(* removeInactive                                                          *)
(***************************************************************************)
\* The fresh ModuleState that computeModuleStates[name] value-initialises.
NewModuleState == [activeInputs |-> {}, activeOutputs |-> {}, clusterId |-> 0]

\* valid[hash] with the ports of hash 0 counted as well.
HashCountAnyHash(cms, h) ==
    SumOver(DOMAIN cms,
            [n \in DOMAIN cms |->
               Cardinality({p \in DOMAIN InputMap(n) : InputMap(n)[p].hash = h})
             + Cardinality({p \in DOMAIN OutputMap(n) : OutputMap(n)[p].hash = h})])

\* valid[hash]: occurrences of a non-zero hash over the inputs and outputs of
\* the modules of computeModuleStates.
HashCount(cms, h) ==
    IF h = 0 THEN 0
    ELSE SumOver(DOMAIN cms,
                 [n \in DOMAIN cms |->
                    Cardinality({p \in DOMAIN InputMap(n) : InputMap(n)[p].hash = h})
                  + Cardinality({p \in DOMAIN OutputMap(n) : OutputMap(n)[p].hash = h})])

\* The second loop: a port whose hash count exceeds 1 is inserted into the
\* active map; nothing is erased from it.
GenerateIOMap(cms) ==
    [n \in DOMAIN cms |->
        [cms[n] EXCEPT
            !.activeInputs = @ \cup {p \in DOMAIN InputMap(n) :
                                        HashCount(cms, InputMap(n)[p].hash) > 1},
            !.activeOutputs = @ \cup {p \in DOMAIN OutputMap(n) :
                                        HashCount(cms, OutputMap(n)[p].hash) > 1}]]

StaleModules(cms) ==
    {n \in DOMAIN cms : cms[n].activeInputs = {} /\ cms[n].activeOutputs = {}}

\* removeInactive with the stale modules collected before the I/O map is
\* generated.
removeInactiveStaleFirst(cms, pms) ==
    LET io == GenerateIOMap(cms)
        stale == StaleModules(cms)
    IN [computeModuleStates |-> io,
        validComputeModuleStates |-> [n \in (DOMAIN io) \ stale |-> io[n]],
        validPresentModuleStates |-> pms \ stale]

\* The whole of removeInactive: the new computeModuleStates and the two
\* valid maps.
removeInactive(cms, pms) ==
    LET io == GenerateIOMap(cms)
        stale == StaleModules(io)
    IN [computeModuleStates |-> io,
        validComputeModuleStates |-> [n \in (DOMAIN io) \ stale |-> io[n]],
        validPresentModuleStates |-> pms \ stale]

(***************************************************************************)
(* arrangeDependencyOrder                                                  *)
(***************************************************************************)
\* moduleInputCache[l]: how often module m is listed as a consumer of locale l
\* (once per active input of m that carries l).
ModuleInputCache(v, l, m) ==
    Cardinality({p \in v[m].activeInputs : InputMap(m)[p].locale = l})

\* moduleOutputCache[l]: the module with an active output of locale l (output
\* locales of the catalog are unique); the default string when there is none.
ModuleOutputCache(v, l) ==
    LET producers == {n \in DOMAIN v :
                        \E o \in v[n].activeOutputs : OutputMap(n)[o].locale = l}
    IN IF producers = {} THEN NoName ELSE CHOOSE n \in producers : TRUE

\* moduleEdgesCache[n] holding the producers of the inputs of n only.
ModuleEdgesCacheInputsOnly(v, n) ==
    IF n \notin DOMAIN v THEN {}
    ELSE {ModuleOutputCache(v, InputMap(n)[p].locale) : p \in v[n].activeInputs}

\* moduleEdgesCache[n]; operator[] gives the empty set for an unknown name.
ModuleEdgesCache(v, n) ==
    IF n \notin DOMAIN v THEN {}
    ELSE {ModuleOutputCache(v, InputMap(n)[p].locale) : p \in v[n].activeInputs}
         \cup {m \in DOMAIN v : \E o \in v[n].activeOutputs :
                                  ModuleInputCache(v, OutputMap(n)[o].locale, m) > 0}

\* degrees[name] = activeInputs.size()
InitialDegrees(v) == [n \in DOMAIN v |-> Cardinality(v[n].activeInputs)]

\* queue: the modules with no active input.
InitialQueue(v) == {n \in DOMAIN v : v[n].activeInputs = {}}

\* degrees[m] = 0 in place of --degrees[m], for every consumer m of next.
DecrementsToZero(v, next, m) ==
    IF \E o \in v[next].activeOutputs :
          ModuleInputCache(v, OutputMap(next)[o].locale, m) > 0
    THEN Cardinality(v[m].activeInputs)
    ELSE 0

\* How often degrees[m] is decremented when next has been appended: once per
\* (active output of next, listing of m in moduleInputCache of its locale).
Decrements(v, next, m) ==
    SumOver(v[next].activeOutputs,
            [o \in v[next].activeOutputs |->
                ModuleInputCache(v, OutputMap(next)[o].locale, m)])

\* The ready-set loop.  The queue is an unordered set: the first name iterated
\* whose device is lastDevice (any device under None) is taken; when there is
\* none lastDevice is reset.  U64 degrees are kept as integers: a value below
\* zero stands for the wrapped value, which no decrement brings back to 0.
\* The names of v are not empty; LoopAppend and LoopReset follow the loop
\* iteration by iteration for any name.
RECURSIVE PrimitiveOrders(_, _, _, _, _)
PrimitiveOrders(v, queue, degrees, lastDevice, order) ==
    IF queue = {} THEN {order}
    ELSE LET ready == IF lastDevice = DeviceNone THEN queue
                      ELSE {n \in queue : ModuleDevice(n) = lastDevice}
         IN IF ready = {}
            THEN PrimitiveOrders(v, queue, degrees, DeviceNone, order)
            ELSE UNION {
                   LET dec == [m \in DOMAIN v |-> Decrements(v, next, m)]
                       zero == {m \in DOMAIN v : degrees[m] >= 1 /\ dec[m] >= degrees[m]}
                   IN PrimitiveOrders(v, (queue \ {next}) \cup zero,
                                      [m \in DOMAIN v |-> degrees[m] - dec[m]],
                                      ModuleDevice(next), Append(order, next))
                   : next \in ready }

\* The depth-first stack walk from the names of stack; the result does not
\* depend on the order of the stack, which is kept as a set.
RECURSIVE StackWalk(_, _, _)
StackWalk(v, stack, visited) ==
    IF stack = {} THEN visited
    ELSE LET current == CHOOSE x \in stack : TRUE
             push == {nb \in ModuleEdgesCache(v, current) : nb \notin visited}
         IN StackWalk(v, (stack \ {current}) \cup push, visited \cup {current})

\* Cluster ids, walking validComputeModuleStates in the order iter.
RECURSIVE SplitClusters(_, _, _, _, _, _)
SplitClusters(v, iter, i, visited, ids, clusterCount) ==
    IF i > Len(iter) THEN ids
    ELSE IF iter[i] \in visited
         THEN SplitClusters(v, iter, i + 1, visited, ids, clusterCount)
         ELSE LET seen == StackWalk(v, {iter[i]}, visited)
                  new == seen \ visited
              IN SplitClusters(v, iter, i + 1, seen,
                               [n \in (DOMAIN ids) \cup new |->
                                   IF n \in new THEN clusterCount ELSE ids[n]],
                               clusterCount + 1)

\* validComputeModuleStates[current].clusterId = clusterCount, for every name
\* walked (operator[] inserts a name that is not in the map).
WithClusters(v, ids) ==
    [n \in (DOMAIN v) \cup (DOMAIN ids) |->
        LET st == IF n \in DOMAIN v THEN v[n] ELSE NewModuleState
        IN IF n \in DOMAIN ids THEN [st EXCEPT !.clusterId = ids[n]] ELSE st]

\* (currentDevice & lastDevice) != lastDevice, over one-bit device flags.
DeviceMismatch(currentDevice, lastDevice) == currentDevice # lastDevice

\* The split of executionOrder with a new entry at a change of device only.
RECURSIVE DeviceRunsDeviceOnly(_, _, _, _, _, _)
DeviceRunsDeviceOnly(v, order, i, lastDevice, lastCluster, acc) ==
    IF i > Len(order) THEN acc
    ELSE LET name == order[i]
             currentDevice == ModuleDevice(name)
             pushed == IF DeviceMismatch(currentDevice, lastDevice)
                       THEN Append(acc, [device |-> currentDevice, run |-> <<>>])
                       ELSE acc
             back == Len(pushed)
         IN DeviceRunsDeviceOnly(v, order, i + 1, currentDevice, lastCluster,
                                 [pushed EXCEPT ![back].run = Append(@, name)])

\* The split with the name appended only when no new entry is pushed.
RECURSIVE DeviceRunsPushOrAppend(_, _, _, _, _, _)
DeviceRunsPushOrAppend(v, order, i, lastDevice, lastCluster, acc) ==
    IF i > Len(order) THEN acc
    ELSE LET name == order[i]
             currentCluster == v[name].clusterId
             currentDevice == ModuleDevice(name)
         IN DeviceRunsPushOrAppend(v, order, i + 1, currentDevice, currentCluster,
               IF DeviceMismatch(currentDevice, lastDevice)
                  \/ currentCluster # lastCluster
               THEN Append(acc, [device |-> currentDevice, run |-> <<>>])
               ELSE [acc EXCEPT ![Len(acc)].run = Append(@, name)])

\* The split of executionOrder into (device, run) entries.
RECURSIVE DeviceRuns(_, _, _, _, _, _)
DeviceRuns(v, order, i, lastDevice, lastCluster, acc) ==
    IF i > Len(order) THEN acc
    ELSE LET name == order[i]
             currentCluster == v[name].clusterId
             currentDevice == ModuleDevice(name)
             pushed == IF DeviceMismatch(currentDevice, lastDevice)
                          \/ currentCluster # lastCluster
                       THEN Append(acc, [device |-> currentDevice, run |-> <<>>])
                       ELSE acc
             back == Len(pushed)
         IN DeviceRuns(v, order, i + 1, currentDevice, currentCluster,
                       [pushed EXCEPT ![back].run = Append(@, name)])

\* The outcomes of arrangeDependencyOrder over validComputeModuleStates v.
arrangeDependencyOrder(v) ==
    { IF Len(order) # Cardinality(DOMAIN v)
      THEN [res |-> "FATAL", validComputeModuleStates |-> v,
            executionOrder |-> order, deviceExecutionOrder |-> <<>>]
      ELSE [res |-> "SUCCESS", validComputeModuleStates |-> cl[1],
            executionOrder |-> order,
            deviceExecutionOrder |-> DeviceRuns(cl[1], order, 1, DeviceNone, 0, <<>>)]
      : order \in PrimitiveOrders(v, InitialQueue(v), InitialDegrees(v), DeviceNone, <<>>),
        cl \in {<<WithClusters(v, SplitClusters(v, iter, 1, {}, <<>>, 0))>> :
                   iter \in Orders(DOMAIN v)} }

(***************************************************************************)
(* checkSequenceValidity                                                   *)
(***************************************************************************)
\* The block names in the order of std::string's operator<.
SortedNames ==
    <<"", "A", "B", "C", "E", "F", "G", "H", "M", "P", "Q", "R", "S", "T", "V",
      "W", "X", "Y", "Z">>

NameRank(n) == CHOOSE i \in 1..Len(SortedNames) : SortedNames[i] = n

\* std::ranges::set_intersection over two ranges of numbers, as the merge it
\* is: the ranges are walked in step and only equal heads are kept.  The
\* ranges given to it here are not sorted.
RECURSIVE SetIntersection(_, _)
SetIntersection(a, b) ==
    IF a = <<>> \/ b = <<>> THEN <<>>
    ELSE IF Head(a) < Head(b) THEN SetIntersection(Tail(a), b)
    ELSE IF Head(b) < Head(a) THEN SetIntersection(a, Tail(b))
    ELSE <<Head(a)>> \o SetIntersection(Tail(a), Tail(b))

\* inplaceVectors of one module: the intersection of the unordered sets of
\* its active input hashes and active output hashes, for every order in which
\* the two sets can be iterated.
InplaceVectors(v, name) ==
    LET inputs == {InputMap(name)[p].hash : p \in v[name].activeInputs}
        outputs == {OutputMap(name)[o].hash : o \in v[name].activeOutputs}
    IN {Range(SetIntersection(i, o)) : i \in Orders(inputs), o \in Orders(outputs)}

\* The functions that take one element of F[n] for every n.
Choices(F) ==
    {f \in [DOMAIN F -> UNION {F[n] : n \in DOMAIN F}] : \A n \in DOMAIN F : f[n] \in F[n]}

\* inplaceVectorsMap[hash]: the modules, in execution order, whose
\* inplaceVectors f[name] hold hash.
InplaceVectorsMap(order, f, hash) ==
    SelectSeq(order, LAMBDA n : hash \in f[n])

\* pMap[{hash, locale}]: the modules in execution order, once per active
\* input that carries the pair.
RECURSIVE PMap(_, _, _, _)
PMap(v, order, i, key) ==
    IF i > Len(order) THEN <<>>
    ELSE LET name == order[i]
             count == Cardinality({p \in v[name].activeInputs :
                                      InputMap(name)[p] = Rec(key[1], key[2])})
         IN [k \in 1..count |-> name] \o PMap(v, order, i + 1, key)

\* The keys of pMap.
PMapKeys(v, order) ==
    UNION {{<<InputMap(n)[p].hash, InputMap(n)[p].locale>> : p \in v[n].activeInputs}
              : n \in Range(order)}

\* The warning of one entry of pMap.
SharedInplace(v, order, f, key) ==
    LET blocks == PMap(v, order, 1, key)
        inplace == InplaceVectorsMap(order, f, key[1])
        ranks(names) == [k \in 1..Len(names) |-> NameRank(names[k])]
    IN /\ Len(blocks) > 1
       /\ inplace # <<>>
       /\ SetIntersection(ranks(blocks), ranks(inplace)) # <<>>

\* The outcomes of checkSequenceValidity: it always returns SUCCESS; warned
\* tells whether "Vector is being shared by at least two modules after a
\* branch and at least one of them is an in-place module" is logged.
checkSequenceValidity(v, order) ==
    {[res |-> "SUCCESS",
      warned |-> \E key \in PMapKeys(v, order) : SharedInplace(v, order, f, key)]
     : f \in Choices([n \in Range(order) |-> InplaceVectors(v, n)])}

(***************************************************************************)
(* createExecutionGraphs                                                   *)
(***************************************************************************)
WiredInputs(v, run) ==
    UNION {{InputMap(n)[p].locale : p \in v[n].activeInputs} : n \in Range(run)}

WiredOutputs(v, run) ==
    UNION {{OutputMap(n)[o].locale : o \in v[n].activeOutputs} : n \in Range(run)}

\* NewGraph(device) followed by setWiredInput / setWiredOutput / setModule for
\* every module of the run.
NewGraph(v, entry) ==
    [device |-> entry.device,
     modules |-> entry.run,
     wiredInputs |-> WiredInputs(v, entry.run),
     wiredOutputs |-> WiredOutputs(v, entry.run),
     externallyWiredInputs |-> {},
     externallyWiredOutputs |-> {},
     state |-> "new"]

\* The graph the loop "Creating dependency list between graphs" compares
\* currentGraph with: previousGraph is assigned once, at the first graph.
PreviousGraph(i) == 1

\* The dependency list with the two setters exchanged: the common items set
\* as externally wired inputs of previousGraph and outputs of currentGraph.
ExternallyWireSwapped(gs) ==
    [i \in 1..Len(gs) |->
        LET common(a, b) == gs[a].wiredOutputs \cap gs[b].wiredInputs
        IN [gs[i] EXCEPT
              !.externallyWiredOutputs =
                  IF i = 1 THEN {} ELSE common(PreviousGraph(i), i),
              !.externallyWiredInputs =
                  UNION {common(i, j) : j \in {k \in 2..Len(gs) : PreviousGraph(k) = i}}]]

\* The dependency list between graphs.
ExternallyWire(gs) ==
    [i \in 1..Len(gs) |->
        LET common(a, b) == gs[a].wiredOutputs \cap gs[b].wiredInputs
        IN [gs[i] EXCEPT
              !.externallyWiredInputs =
                  IF i = 1 THEN {} ELSE common(PreviousGraph(i), i),
              !.externallyWiredOutputs =
                  UNION {common(i, j) : j \in {k \in 2..Len(gs) : PreviousGraph(k) = i}}]]

createExecutionGraphs(v, deo) ==
    ExternallyWire([i \in 1..Len(deo) |-> NewGraph(v, deo[i])])

\* graph->create() on every graph in order; failed = 0 when every create()
\* succeeds, else the index of the graph whose create() returns an error.
CreateGraphs(gs, failed) ==
    [i \in 1..Len(gs) |->
        [gs[i] EXCEPT !.state = IF failed = 0 \/ i < failed THEN "created"
                                ELSE IF i = failed THEN "failed" ELSE "new"]]

\* graph->destroy() on every graph in order; failed as in CreateGraphs.
DestroyGraphs(gs, failed) ==
    [i \in 1..Len(gs) |->
        [gs[i] EXCEPT !.state = IF failed = 0 \/ i < failed THEN "destroyed"
                                ELSE IF i = failed THEN "failed" ELSE @]]

\* "Process modules into graph" and "Initialize graphs" of addModule and
\* removeModule: every outcome of the rebuild over the module maps cms and
\* pms, old being the graph list the rebuild starts with.
Rebuild(cms, pms, old) ==
    LET ri == removeInactive(cms, pms)
        base == [computeModuleStates |-> ri.computeModuleStates,
                 validPresentModuleStates |-> ri.validPresentModuleStates]
    IN UNION {
         IF ar.res # "SUCCESS"
         THEN {[res |-> ar.res, graphs |-> old] @@ ar @@ base}
         ELSE IF \E cs \in checkSequenceValidity(ar.validComputeModuleStates,
                                                 ar.executionOrder) :
                     cs.res # "SUCCESS"
         THEN {[res |-> "ERROR", graphs |-> old] @@ ar @@ base}
         ELSE LET gs == createExecutionGraphs(ar.validComputeModuleStates,
                                              ar.deviceExecutionOrder)
              IN {[res |-> IF failed = 0 THEN "SUCCESS" ELSE "ERROR",
                   graphs |-> CreateGraphs(gs, failed)] @@ ar @@ base
                  : failed \in 0..Len(gs)}
         : ar \in arrangeDependencyOrder(ri.validComputeModuleStates) }

(***************************************************************************)
(* State.                                                                  *)
(***************************************************************************)
VARIABLES
    running,                    \* Scheduler::running
    computeModuleStates,        \* name -> ModuleState
    presentModuleStates,        \* names registered with a Present
    validComputeModuleStates,   \* name -> ModuleState (copies)
    validPresentModuleStates,
    executionOrder,
    deviceExecutionOrder,
    graphs,                     \* the graph executors
    computeHalt, presentHalt, computeWait,      \* atomic flags
    presentSync, computeSync,
    sharedMutex,                \* "free" or the thread that holds it
    pcA, op, fnRes, appRet,     \* application thread
    opsLeft, avail,             \* what the application still does
    pcC, ci, cres, cret,        \* compute thread
    mutated,                    \* history: "none" before the first
                                \* computeReady() of a compute() call, then
                                \* "clean" until a lockState function runs
                                \* before the call ends ("dirty")
    hist,                       \* history: the last addModule / removeModule
                                \* pair and the state before it
    pcP, pret,                  \* present thread
    queue, degrees, lastDevice, \* arrangeDependencyOrder: the locals of the
                                \* ready-set loop
    iterations                  \* history: the iterations of that loop

graphVars == <<running, computeModuleStates, presentModuleStates,
               validComputeModuleStates, validPresentModuleStates,
               executionOrder, deviceExecutionOrder, graphs>>

flagVars == <<computeHalt, presentHalt, computeWait, presentSync, computeSync>>

appVars == <<pcA, op, fnRes, appRet, opsLeft, avail>>

computeVars == <<pcC, ci, cres, cret>>

presentVars == <<pcP, pret>>

loopVars == <<queue, degrees, lastDevice, iterations>>

vars == <<graphVars, flagVars, sharedMutex, appVars, computeVars, mutated,
          hist, loopVars, presentVars>>

\* What a later removeModule is compared with: the valid modules, the active
\* ports of every registered module and the partition into executors.
Snapshot ==
    [validCompute |-> DOMAIN validComputeModuleStates,
     validPresent |-> validPresentModuleStates,
     active |-> [n \in DOMAIN computeModuleStates |->
                    <<computeModuleStates[n].activeInputs,
                      computeModuleStates[n].activeOutputs>>],
     executors |-> {graphs[i].modules : i \in 1..Len(graphs)}]

NoHist == [stage |-> "none", name |-> NoName, snap |-> <<>>]

VoidHist == [stage |-> "void", name |-> NoName, snap |-> <<>>]

\* An addModule has failed on a dependency cycle of the registered modules.
CycleHist == [stage |-> "cycle", name |-> NoName, snap |-> <<>>]

\* addModule or removeModule called, and returned, after that failure.
RecoveringHist == [stage |-> "recovering", name |-> NoName, snap |-> <<>>]

RecoveredHist == [stage |-> "recovered", name |-> NoName, snap |-> <<>>]

NoOp == [kind |-> "none", name |-> NoName]

\* Module a has an output whose record an input of module b carries.
Links(a, b) ==
    \E o \in DOMAIN OutputMap(a) : \E p \in DOMAIN InputMap(b) :
        OutputMap(a)[o] = InputMap(b)[p]

RECURSIVE LinkedFrom(_, _)
LinkedFrom(S, k) ==
    IF k = 0 THEN S
    ELSE LinkedFrom(S \cup {b \in DOMAIN computeModuleStates :
                              \E a \in S : Links(a, b)}, k - 1)

\* A chain of producer-to-consumer links leads from a registered module back
\* to itself.
RegisteredCycle ==
    \E n \in DOMAIN computeModuleStates :
        n \in LinkedFrom({b \in DOMAIN computeModuleStates : Links(n, b)},
                         Cardinality(DOMAIN computeModuleStates))

InitWith(names, ops, h) ==
    /\ running = FALSE
    /\ computeModuleStates = <<>>
    /\ presentModuleStates = {}
    /\ validComputeModuleStates = <<>>
    /\ validPresentModuleStates = {}
    /\ executionOrder = <<>>
    /\ deviceExecutionOrder = <<>>
    /\ graphs = <<>>
    /\ computeHalt = FALSE /\ presentHalt = FALSE /\ computeWait = FALSE
    /\ presentSync = FALSE /\ computeSync = FALSE
    /\ sharedMutex = "free"
    /\ pcA = "idle" /\ op = NoOp /\ fnRes = "SUCCESS" /\ appRet = "SUCCESS"
    /\ opsLeft = ops /\ avail = names
    /\ pcC = "idle" /\ ci = 1 /\ cres = "SUCCESS" /\ cret = "SUCCESS"
    /\ mutated = "none"
    /\ hist = h
    /\ pcP = "idle" /\ pret = "SUCCESS"
    /\ queue = {} /\ degrees = <<>> /\ lastDevice = DeviceNone
    /\ iterations = 0

\* Spec keeps no addModule / removeModule history.
Init == InitWith(SchedNames, MaxOps, VoidHist)

InitGraph == InitWith(GraphNames, MaxGraphOps, NoHist)

InitCluster == InitWith(ClusterNames, MaxGraphOps, VoidHist)

(***************************************************************************)
(* Condition variables: notify_all wakes the thread blocked in wait(), which *)
(* then takes the mutex again and evaluates its predicate.                 *)
(***************************************************************************)
NotifyComputeCond == pcC' = IF pcC = "sleep" THEN "lock" ELSE pcC

NotifyPresentCond == pcP' = IF pcP = "sleep" THEN "lock" ELSE pcP

(***************************************************************************)
(* Application thread: addModule, removeModule, destroy.                   *)
(***************************************************************************)
\* addModule up to the call of lockState: running = true.
AddModuleCall(m) ==
    /\ pcA = "idle" /\ opsLeft > 0
    /\ m \in avail /\ m \notin DOMAIN computeModuleStates
    /\ m \notin presentModuleStates
    /\ running' = TRUE
    /\ op' = [kind |-> "add", name |-> m]
    /\ pcA' = "halt" /\ opsLeft' = opsLeft - 1
    /\ UNCHANGED loopVars
    /\ hist' = IF hist.stage = "void" THEN hist
               ELSE IF hist.stage \in {"cycle", "recovered"} THEN RecoveringHist
               ELSE [stage |-> "adding", name |-> m, snap |-> Snapshot]
    /\ UNCHANGED <<computeModuleStates, presentModuleStates,
                   validComputeModuleStates, validPresentModuleStates,
                   executionOrder, deviceExecutionOrder, graphs, flagVars,
                   sharedMutex, fnRes, appRet, avail, computeVars, mutated,
                   presentVars>>

\* removeModule calling lockState whether the scheduler is running or not.
RemoveModuleCallAlwaysLocks(m) ==
    /\ pcA = "idle" /\ opsLeft > 0
    /\ m \in avail
    /\ op' = [kind |-> "remove", name |-> m]
    /\ opsLeft' = opsLeft - 1
    /\ pcA' = "halt"
    /\ UNCHANGED loopVars
    /\ hist' = IF hist.stage = "void" THEN hist
               ELSE IF hist.stage \in {"cycle", "recovered"} THEN RecoveringHist
               ELSE IF running /\ hist.stage = "added" /\ hist.name = m
                    THEN [hist EXCEPT !.stage = "removing"]
                    ELSE NoHist
    /\ UNCHANGED <<graphVars, flagVars, sharedMutex, fnRes, appRet, avail,
                   computeVars, mutated, presentVars>>

\* removeModule up to the call of lockState: the early return when the
\* scheduler is not running.
RemoveModuleCall(m) ==
    /\ pcA = "idle" /\ opsLeft > 0
    /\ m \in avail
    /\ op' = [kind |-> "remove", name |-> m]
    /\ opsLeft' = opsLeft - 1
    /\ IF ~running
       THEN pcA' = "idle" /\ appRet' = "SUCCESS"
       ELSE pcA' = "halt" /\ appRet' = appRet
    /\ UNCHANGED loopVars
    /\ hist' = IF hist.stage = "void" THEN hist
               ELSE IF hist.stage \in {"cycle", "recovered"} THEN RecoveringHist
               ELSE IF running /\ hist.stage = "added" /\ hist.name = m
                    THEN [hist EXCEPT !.stage = "removing"]
                    ELSE NoHist
    /\ UNCHANGED <<graphVars, flagVars, sharedMutex, fnRes, avail,
                   computeVars, mutated, presentVars>>

DestroyCall ==
    /\ pcA = "idle" /\ opsLeft > 0
    /\ op' = [kind |-> "destroy", name |-> NoName]
    /\ pcA' = "halt" /\ opsLeft' = opsLeft - 1
    /\ UNCHANGED loopVars
    /\ hist' = IF hist.stage \in {"void", "cycle", "recovered"} THEN VoidHist
               ELSE NoHist
    /\ UNCHANGED <<graphVars, flagVars, sharedMutex, fnRes, appRet, avail,
                   computeVars, mutated, presentVars>>

\* lockState: computeHalt.test_and_set(); presentHalt.test_and_set().
LockStateHalt ==
    /\ pcA = "halt"
    /\ computeHalt' = TRUE /\ presentHalt' = TRUE
    /\ pcA' = "wait"
    /\ UNCHANGED <<graphVars, computeWait, presentSync, computeSync,
                   sharedMutex, op, fnRes, appRet, opsLeft, avail,
                   computeVars, mutated, hist, loopVars, presentVars>>

\* lockState: computeWait.wait(true).
LockStateWait ==
    /\ pcA = "wait"
    /\ ~computeWait
    /\ pcA' = "lock"
    /\ UNCHANGED <<graphVars, flagVars, sharedMutex, op, fnRes, appRet,
                   opsLeft, avail, computeVars, mutated, hist, loopVars, presentVars>>

\* lockState going on without sharedMutex.lock() having the mutex.
LockStateAcquireNoLock ==
    /\ pcA = "lock"
    /\ sharedMutex' = "app"
    /\ pcA' = "sync"
    /\ UNCHANGED <<graphVars, flagVars, op, fnRes, appRet, opsLeft, avail,
                   computeVars, mutated, hist, loopVars, presentVars>>

\* lockState: sharedMutex.lock().
LockStateAcquire ==
    /\ pcA = "lock"
    /\ sharedMutex = "free"
    /\ sharedMutex' = "app"
    /\ pcA' = "sync"
    /\ UNCHANGED <<graphVars, flagVars, op, fnRes, appRet, opsLeft, avail,
                   computeVars, mutated, hist, loopVars, presentVars>>

\* lockState: presentSync = true; computeSync = true.
LockStateSync ==
    /\ pcA = "sync"
    /\ presentSync' = TRUE /\ computeSync' = TRUE
    /\ pcA' = "fn"
    /\ UNCHANGED <<graphVars, computeHalt, presentHalt, computeWait,
                   sharedMutex, op, fnRes, appRet, opsLeft, avail,
                   computeVars, mutated, hist, loopVars, presentVars>>

\* The compute thread is between its first computeReady() and the end of its
\* compute pass.
ComputeObserving == pcC \in {"poll", "clearwait", "lock", "cond", "sleep", "setsync", "run"}

\* The first half of the function given to lockState: the destroy loop and
\* the change of the module maps (of destroy(): running = false and the
\* destroy loop).
FnBegin ==
    /\ pcA = "fn"
    /\ mutated' = IF mutated = "clean" /\ ComputeObserving THEN "dirty" ELSE mutated
    /\ \E failed \in 0..Len(graphs) :
         /\ graphs' = DestroyGraphs(graphs, failed)
         /\ IF failed # 0
            THEN /\ fnRes' = "ERROR" /\ pcA' = "release"
                 /\ running' = (running /\ op.kind # "destroy")
                 /\ UNCHANGED <<computeModuleStates, presentModuleStates>>
            ELSE /\ fnRes' = "SUCCESS" /\ pcA' = "fn2"
                 /\ CASE op.kind = "add" ->
                           /\ presentModuleStates' =
                                IF Catalog[op.name].present
                                THEN presentModuleStates \cup {op.name}
                                ELSE presentModuleStates
                           /\ computeModuleStates' =
                                IF Catalog[op.name].compute
                                THEN [n \in (DOMAIN computeModuleStates) \cup {op.name} |->
                                        IF n \in DOMAIN computeModuleStates
                                        THEN computeModuleStates[n]
                                        ELSE NewModuleState]
                                ELSE computeModuleStates
                           /\ UNCHANGED running
                   [] op.kind = "remove" ->
                           /\ presentModuleStates' = presentModuleStates \ {op.name}
                           /\ computeModuleStates' =
                                [n \in (DOMAIN computeModuleStates) \ {op.name} |->
                                    computeModuleStates[n]]
                           /\ UNCHANGED running
                   [] OTHER ->
                           /\ running' = FALSE
                           /\ UNCHANGED <<computeModuleStates, presentModuleStates>>
    /\ UNCHANGED <<validComputeModuleStates, validPresentModuleStates,
                   executionOrder, deviceExecutionOrder, flagVars, sharedMutex,
                   op, appRet, opsLeft, avail, computeVars, hist, loopVars, presentVars>>

\* The second half of the function of addModule and removeModule.
FnRebuild ==
    /\ pcA = "fn2" /\ op.kind \in {"add", "remove"}
    /\ mutated' = IF mutated = "clean" /\ ComputeObserving THEN "dirty" ELSE mutated
    /\ \E out \in Rebuild(computeModuleStates, presentModuleStates, graphs) :
         /\ fnRes' = out.res
         /\ computeModuleStates' = out.computeModuleStates
         /\ validComputeModuleStates' = out.validComputeModuleStates
         /\ validPresentModuleStates' = out.validPresentModuleStates
         /\ executionOrder' = out.executionOrder
         /\ deviceExecutionOrder' = out.deviceExecutionOrder
         /\ graphs' = out.graphs
    /\ pcA' = "release"
    /\ UNCHANGED <<running, presentModuleStates, flagVars, sharedMutex, op,
                   appRet, opsLeft, avail, computeVars, hist, loopVars, presentVars>>

\* "Blanks internal memory" without graphs.clear().
FnClearKeepsGraphs ==
    /\ pcA = "fn2" /\ op.kind = "destroy"
    /\ mutated' = IF mutated = "clean" /\ ComputeObserving THEN "dirty" ELSE mutated
    /\ computeModuleStates' = <<>> /\ presentModuleStates' = {}
    /\ validComputeModuleStates' = <<>> /\ validPresentModuleStates' = {}
    /\ executionOrder' = <<>> /\ deviceExecutionOrder' = <<>>
    /\ fnRes' = "SUCCESS"
    /\ pcA' = "release"
    /\ UNCHANGED <<running, graphs, flagVars, sharedMutex, op, appRet, opsLeft,
                   avail, computeVars, hist, loopVars, presentVars>>

\* The second half of the function of destroy(): "Blanks internal memory".
FnClear ==
    /\ pcA = "fn2" /\ op.kind = "destroy"
    /\ mutated' = IF mutated = "clean" /\ ComputeObserving THEN "dirty" ELSE mutated
    /\ computeModuleStates' = <<>> /\ presentModuleStates' = {}
    /\ validComputeModuleStates' = <<>> /\ validPresentModuleStates' = {}
    /\ executionOrder' = <<>> /\ deviceExecutionOrder' = <<>>
    /\ graphs' = <<>>
    /\ fnRes' = "SUCCESS"
    /\ pcA' = "release"
    /\ UNCHANGED <<running, flagVars, sharedMutex, op, appRet, opsLeft,
                   avail, computeVars, hist, loopVars, presentVars>>

\* lockState returning the error of func() at once (JST_CHECK(func())).
LockStateReleaseChecked ==
    /\ pcA = "release"
    /\ IF fnRes # "SUCCESS"
       THEN /\ pcA' = "idle" /\ appRet' = fnRes
            /\ UNCHANGED <<computeSync, presentSync, sharedMutex>>
       ELSE /\ computeSync' = FALSE /\ presentSync' = FALSE
            /\ sharedMutex' = "free"
            /\ pcA' = "notify" /\ appRet' = appRet
    /\ UNCHANGED <<graphVars, computeHalt, presentHalt, computeWait, op,
                   fnRes, opsLeft, avail, computeVars, mutated, hist, loopVars,
                   presentVars>>

\* lockState: computeSync = false; presentSync = false; sharedMutex.unlock().
LockStateRelease ==
    /\ pcA = "release"
    /\ computeSync' = FALSE /\ presentSync' = FALSE
    /\ sharedMutex' = "free"
    /\ pcA' = "notify"
    /\ UNCHANGED <<graphVars, computeHalt, presentHalt, computeWait, op,
                   fnRes, appRet, opsLeft, avail, computeVars, mutated, hist, loopVars,
                   presentVars>>

\* lockState: computeCond.notify_all(); presentCond.notify_all().
LockStateNotify ==
    /\ pcA = "notify"
    /\ NotifyComputeCond /\ NotifyPresentCond
    /\ pcA' = "unhalt"
    /\ UNCHANGED <<graphVars, flagVars, sharedMutex, op, fnRes, appRet,
                   opsLeft, avail, ci, cres, cret, mutated, hist, loopVars, pret>>

\* lockState: the halt flags are cleared and res is returned; the caller
\* returns it (JST_CHECK) or SUCCESS.
LockStateUnhalt ==
    /\ pcA = "unhalt"
    /\ computeHalt' = FALSE /\ presentHalt' = FALSE
    /\ appRet' = fnRes
    /\ pcA' = "idle"
    /\ UNCHANGED loopVars
    /\ hist' = IF hist.stage = "void" THEN hist
               ELSE IF hist.stage = "recovering" THEN RecoveredHist
               ELSE IF fnRes = "FATAL" /\ op.kind = "add" /\ RegisteredCycle
                    THEN CycleHist
               ELSE IF fnRes # "SUCCESS" THEN VoidHist
               ELSE IF hist.stage = "adding" THEN [hist EXCEPT !.stage = "added"]
               ELSE IF hist.stage = "removing" THEN [hist EXCEPT !.stage = "removed"]
               ELSE hist
    /\ UNCHANGED <<graphVars, computeWait, presentSync, computeSync,
                   sharedMutex, op, fnRes, opsLeft, avail, computeVars,
                   mutated, presentVars>>

NextApp ==
    \/ \E m \in Names : AddModuleCall(m)
    \/ \E m \in Names : RemoveModuleCall(m)
    \/ DestroyCall
    \/ LockStateHalt
    \/ LockStateWait
    \/ LockStateAcquire
    \/ LockStateSync
    \/ FnBegin
    \/ FnRebuild
    \/ FnClear
    \/ LockStateRelease
    \/ LockStateNotify
    \/ LockStateUnhalt

SpecGraph == InitGraph /\ [][NextApp]_vars

SpecCluster == InitCluster /\ [][NextApp]_vars

InitPorts == InitWith(PortNames, MaxGraphOps, VoidHist)

SpecPorts == InitPorts /\ [][NextApp]_vars

(***************************************************************************)
(* Compute thread: compute().                                              *)
(***************************************************************************)
\* "Return early if the compute pipeline is empty."
ComputeCall ==
    /\ pcC = "idle"
    /\ cres' = "SUCCESS" /\ ci' = 1
    /\ IF graphs = <<>>
       THEN pcC' = "idle" /\ cret' = "SUCCESS"
       ELSE pcC' = "halt" /\ cret' = cret
    /\ UNCHANGED <<graphVars, flagVars, sharedMutex, appVars, mutated, hist, loopVars,
                   presentVars>>

\* if (computeHalt.test())
ComputeHaltTest ==
    /\ pcC = "halt"
    /\ pcC' = IF computeHalt THEN "haltwait" ELSE "setwait"
    /\ UNCHANGED <<graphVars, flagVars, sharedMutex, appVars, ci, cres, cret,
                   mutated, hist, loopVars, presentVars>>

\* return Result::SUCCESS without computeHalt.wait(true).
ComputeHaltNoWait ==
    /\ pcC = "haltwait"
    /\ pcC' = "idle" /\ cret' = "SUCCESS"
    /\ UNCHANGED <<graphVars, flagVars, sharedMutex, appVars, ci, cres,
                   mutated, hist, loopVars, presentVars>>

\* computeHalt.wait(true); return Result::SUCCESS;
ComputeHaltWait ==
    /\ pcC = "haltwait"
    /\ ~computeHalt
    /\ pcC' = "idle" /\ cret' = "SUCCESS"
    /\ UNCHANGED <<graphVars, flagVars, sharedMutex, appVars, ci, cres,
                   mutated, hist, loopVars, presentVars>>

\* computeWait.test_and_set()
ComputeSetWait ==
    /\ pcC = "setwait"
    /\ computeWait' = TRUE
    /\ ci' = 1 /\ mutated' = "none"
    /\ pcC' = "poll"
    /\ UNCHANGED <<graphVars, computeHalt, presentHalt, presentSync,
                   computeSync, sharedMutex, appVars, cres, cret, hist, loopVars,
                   presentVars>>

\* One graph->computeReady() of the readiness barrier, on the graph list as it
\* is at this moment: TIMEOUT restarts the loop, an error returns from
\* compute() (JST_CHECK), SUCCESS goes on to the next graph.
ComputeReady ==
    /\ pcC = "poll"
    /\ ci <= Len(graphs)
    /\ \E r \in ReadyResults :
         CASE r = "TIMEOUT" -> ci' = 1 /\ UNCHANGED <<pcC, cret>>
           [] r = "SUCCESS" -> ci' = ci + 1 /\ UNCHANGED <<pcC, cret>>
           [] OTHER -> ci' = ci /\ pcC' = "idle" /\ cret' = r
    /\ mutated' = IF mutated = "none" THEN "clean" ELSE mutated
    /\ UNCHANGED <<graphVars, flagVars, sharedMutex, appVars, cres, hist, loopVars,
                   presentVars>>

\* The end of the barrier: computeWait.clear(); computeWait.notify_all().
ComputeClearWait ==
    /\ pcC = "poll"
    /\ ci > Len(graphs)
    /\ computeWait' = FALSE
    /\ pcC' = "lock"
    /\ ci' = 1
    /\ UNCHANGED <<graphVars, computeHalt, presentHalt, presentSync,
                   computeSync, sharedMutex, appVars, cres, cret, mutated, hist, loopVars,
                   presentVars>>

\* std::unique_lock<std::mutex> lock(sharedMutex), and the lock taken again
\* when computeCond.wait wakes up.
ComputeLock ==
    /\ pcC = "lock"
    /\ sharedMutex = "free"
    /\ sharedMutex' = "compute"
    /\ pcC' = "cond"
    /\ UNCHANGED <<graphVars, flagVars, appVars, ci, cres, cret, mutated, hist, loopVars,
                   presentVars>>

\* computeCond.wait(lock, [&] { return !presentSync; }): the predicate is
\* evaluated with the mutex held; when false the mutex is released and the
\* thread blocks.
ComputeCondWait ==
    /\ pcC = "cond"
    /\ IF ~presentSync
       THEN pcC' = "setsync" /\ UNCHANGED sharedMutex
       ELSE pcC' = "sleep" /\ sharedMutex' = "free"
    /\ UNCHANGED <<graphVars, flagVars, appVars, ci, cres, cret, mutated, hist, loopVars,
                   presentVars>>

\* A spurious wake-up of computeCond.wait.
ComputeSpuriousWake ==
    /\ pcC = "sleep"
    /\ pcC' = "lock"
    /\ UNCHANGED <<graphVars, flagVars, sharedMutex, appVars, ci, cres, cret,
                   mutated, hist, loopVars, presentVars>>

\* computeSync = true
ComputeSetSync ==
    /\ pcC = "setsync"
    /\ computeSync' = TRUE
    /\ ci' = 1 /\ cres' = "SUCCESS"
    /\ pcC' = "run"
    /\ UNCHANGED <<graphVars, computeHalt, presentHalt, computeWait,
                   presentSync, sharedMutex, appVars, cret, mutated, hist, loopVars,
                   presentVars>>

\* One graph->compute() of the compute pass: break on the first result that
\* is not SUCCESS.
ComputeGraph ==
    /\ pcC = "run"
    /\ ci <= Len(graphs)
    /\ \E r \in ComputeResults :
         /\ cres' = r
         /\ IF r = "SUCCESS"
            THEN ci' = ci + 1 /\ pcC' = "run"
            ELSE ci' = ci /\ pcC' = "endrun"
    /\ UNCHANGED <<graphVars, flagVars, sharedMutex, appVars, cret, mutated, hist, loopVars,
                   presentVars>>

\* The loop ran over every graph.
ComputeLoopEnd ==
    /\ pcC = "run"
    /\ ci > Len(graphs)
    /\ pcC' = "endrun"
    /\ UNCHANGED <<graphVars, flagVars, sharedMutex, appVars, ci, cres, cret,
                   mutated, hist, loopVars, presentVars>>

\* The end of the scope of the lock with computeSync left set.
ComputeEndRunKeepsSync ==
    /\ pcC = "endrun"
    /\ sharedMutex' = "free"
    /\ pcC' = "notify"
    /\ UNCHANGED <<graphVars, flagVars, appVars, ci, cres, cret, mutated, hist, loopVars,
                   presentVars>>

\* computeSync = false, and the end of the scope of the lock.
ComputeEndRun ==
    /\ pcC = "endrun"
    /\ computeSync' = FALSE
    /\ sharedMutex' = "free"
    /\ pcC' = "notify"
    /\ UNCHANGED <<graphVars, computeHalt, presentHalt, computeWait,
                   presentSync, appVars, ci, cres, cret, mutated, hist, loopVars, presentVars>>

\* compute() returning res as it is.
ComputeResultVerbatim(res) == res

\* The result compute() returns for the result res of its compute pass.
ComputeResult(res) ==
    IF res = "SUCCESS" THEN res
    ELSE IF res = "TIMEOUT" \/ res = "SKIP" THEN "SUCCESS"
    ELSE res

\* presentCond.notify_all() and the return of compute().
ComputeReturn ==
    /\ pcC = "notify"
    /\ NotifyPresentCond
    /\ cret' = ComputeResult(cres)
    /\ pcC' = "done"
    /\ UNCHANGED <<graphVars, flagVars, sharedMutex, appVars, ci, cres,
                   mutated, hist, loopVars, pret>>

\* The caller of compute() has the result of a pass.
ComputeDone ==
    /\ pcC = "done"
    /\ pcC' = "idle"
    /\ UNCHANGED <<graphVars, flagVars, sharedMutex, appVars, ci, cres, cret,
                   mutated, hist, loopVars, presentVars>>

NextCompute ==
    \/ ComputeCall
    \/ ComputeHaltTest
    \/ ComputeHaltWait
    \/ ComputeSetWait
    \/ ComputeReady
    \/ ComputeClearWait
    \/ ComputeLock
    \/ ComputeCondWait
    \/ ComputeSpuriousWake
    \/ ComputeSetSync
    \/ ComputeGraph
    \/ ComputeLoopEnd
    \/ ComputeEndRun
    \/ ComputeReturn
    \/ ComputeDone

(***************************************************************************)
(* Present thread: present().                                              *)
(***************************************************************************)
\* "Return early if the graphical pipeline is empty."
PresentCall ==
    /\ pcP = "idle"
    /\ IF validPresentModuleStates = {}
       THEN pcP' = "idle" /\ pret' = "SUCCESS"
       ELSE pcP' = "halt" /\ pret' = pret
    /\ UNCHANGED <<graphVars, flagVars, sharedMutex, appVars, computeVars,
                   mutated, hist, loopVars>>

\* if (presentHalt.test()) return Result::SUCCESS;
PresentHaltTest ==
    /\ pcP = "halt"
    /\ IF presentHalt
       THEN pcP' = "idle" /\ pret' = "SUCCESS"
       ELSE pcP' = "setsync" /\ pret' = pret
    /\ UNCHANGED <<graphVars, flagVars, sharedMutex, appVars, computeVars,
                   mutated, hist, loopVars>>

\* presentSync = true
PresentSetSync ==
    /\ pcP = "setsync"
    /\ presentSync' = TRUE
    /\ pcP' = "lock"
    /\ UNCHANGED <<graphVars, computeHalt, presentHalt, computeWait,
                   computeSync, sharedMutex, appVars, computeVars, mutated, hist, loopVars, pret>>

\* std::unique_lock<std::mutex> lock(sharedMutex), and the lock taken again
\* when presentCond.wait wakes up.
PresentLock ==
    /\ pcP = "lock"
    /\ sharedMutex = "free"
    /\ sharedMutex' = "present"
    /\ pcP' = "cond"
    /\ UNCHANGED <<graphVars, flagVars, appVars, computeVars, mutated, hist, loopVars, pret>>

\* presentCond.wait(lock, [&] { return !computeSync; }).  computeSync is only
\* true while another thread holds the mutex, so the wait never blocks.
PresentCondWait ==
    /\ pcP = "cond"
    /\ IF ~computeSync
       THEN pcP' = "run" /\ UNCHANGED sharedMutex
       ELSE pcP' = "sleep" /\ sharedMutex' = "free"
    /\ UNCHANGED <<graphVars, flagVars, appVars, computeVars, mutated, hist, loopVars, pret>>

\* The loop over validPresentModuleStates: every module->present() succeeds,
\* or one of them returns an error and present() returns it (JST_CHECK), the
\* lock being released by its destructor.
PresentModules ==
    /\ pcP = "run"
    /\ \E r \in PresentResults :
         /\ r # "SUCCESS" => validPresentModuleStates # {}
         /\ IF r = "SUCCESS"
            THEN pcP' = "clear" /\ UNCHANGED <<sharedMutex, pret>>
            ELSE pcP' = "idle" /\ sharedMutex' = "free" /\ pret' = r
    /\ UNCHANGED <<graphVars, flagVars, appVars, computeVars, mutated, hist, loopVars>>

\* presentSync = false, and the end of the scope of the lock.
PresentClear ==
    /\ pcP = "clear"
    /\ presentSync' = FALSE
    /\ sharedMutex' = "free"
    /\ pcP' = "notify"
    /\ UNCHANGED <<graphVars, computeHalt, presentHalt, computeWait,
                   computeSync, appVars, computeVars, mutated, hist, loopVars, pret>>

\* computeCond.notify_all() and the return of present().
PresentReturn ==
    /\ pcP = "notify"
    /\ NotifyComputeCond
    /\ pret' = "SUCCESS"
    /\ pcP' = "idle"
    /\ UNCHANGED <<graphVars, flagVars, sharedMutex, appVars, ci, cres, cret,
                   mutated, hist, loopVars>>

NextPresent ==
    \/ PresentCall
    \/ PresentHaltTest
    \/ PresentSetSync
    \/ PresentLock
    \/ PresentCondWait
    \/ PresentModules
    \/ PresentClear
    \/ PresentReturn

Next == NextApp \/ NextCompute \/ NextPresent

\* The application thread building a pipeline by addModule calls.
NextAdd ==
    \/ \E m \in Names : AddModuleCall(m)
    \/ LockStateHalt
    \/ LockStateWait
    \/ LockStateAcquire
    \/ LockStateSync
    \/ FnBegin
    \/ FnRebuild
    \/ LockStateRelease
    \/ LockStateNotify
    \/ LockStateUnhalt

(***************************************************************************)
(* The ready-set loop of arrangeDependencyOrder, one iteration at a time.  *)
(***************************************************************************)
\* removeInactive over the modules S, none of them registered before.
Pruned(S) == removeInactive([n \in S |-> NewModuleState], {})

\* The application thread is in the function of an addModule, at the loop
\* "Calculating primitive execution order", the modules registered being any
\* of LoopNames.
InitLoop ==
    /\ \E S \in SUBSET LoopNames :
         /\ computeModuleStates = Pruned(S).computeModuleStates
         /\ validComputeModuleStates = Pruned(S).validComputeModuleStates
         /\ avail = LoopNames \ S
    /\ running = TRUE
    /\ presentModuleStates = {} /\ validPresentModuleStates = {}
    /\ executionOrder = <<>> /\ deviceExecutionOrder = <<>>
    /\ graphs = <<>>
    /\ computeHalt = TRUE /\ presentHalt = TRUE /\ computeWait = FALSE
    /\ presentSync = TRUE /\ computeSync = TRUE
    /\ sharedMutex = "app"
    /\ pcA = "fn2" /\ op = [kind |-> "add", name |-> NoName]
    /\ fnRes = "SUCCESS" /\ appRet = "SUCCESS"
    /\ opsLeft = 0
    /\ pcC = "idle" /\ ci = 1 /\ cres = "SUCCESS" /\ cret = "SUCCESS"
    /\ mutated = "none"
    /\ hist = VoidHist
    /\ pcP = "idle" /\ pret = "SUCCESS"
    /\ queue = InitialQueue(validComputeModuleStates)
    /\ degrees = InitialDegrees(validComputeModuleStates)
    /\ lastDevice = DeviceNone
    /\ iterations = 0

\* The names the for loop over the queue can stop at: the first name iterated
\* when lastDevice is None, else the first one whose device is lastDevice.
Matching == {n \in queue : lastDevice = DeviceNone \/ ModuleDevice(n) = lastDevice}

\* An iteration of the while loop that finds a name: queue.erase,
\* executionOrder.push_back and the decrement of the consumers' degrees.
LoopAppend ==
    /\ queue # {} /\ iterations < MaxIterations
    /\ \E nextName \in Matching :
         /\ nextName # ""
         /\ LET v == validComputeModuleStates
                dec == [m \in DOMAIN v |-> Decrements(v, nextName, m)]
                zero == {m \in DOMAIN v : degrees[m] >= 1 /\ dec[m] >= degrees[m]}
            IN /\ queue' = (queue \ {nextName}) \cup zero
               /\ degrees' = [m \in DOMAIN v |-> degrees[m] - dec[m]]
         /\ lastDevice' = ModuleDevice(nextName)
         /\ executionOrder' = Append(executionOrder, nextName)
    /\ iterations' = iterations + 1
    /\ UNCHANGED <<running, computeModuleStates, presentModuleStates,
                   validComputeModuleStates, validPresentModuleStates,
                   deviceExecutionOrder, graphs, flagVars, sharedMutex,
                   appVars, computeVars, mutated, hist, presentVars>>

\* An iteration that ends with nextName.empty(): no name of the queue has
\* the device lastDevice, or the name the for loop stopped at is the empty
\* string.
LoopReset ==
    /\ queue # {} /\ iterations < MaxIterations
    /\ Matching = {} \/ "" \in Matching
    /\ lastDevice' = DeviceNone
    /\ iterations' = iterations + 1
    /\ UNCHANGED <<graphVars, flagVars, sharedMutex, appVars, computeVars,
                   mutated, hist, presentVars, queue, degrees>>

SpecLoop == InitLoop /\ [][LoopAppend \/ LoopReset]_vars

InitChain == InitWith(ChainNames, MaxGraphOps, VoidHist)

\* The compute thread when no thread calls present(): presentSync is raised
\* only by lockState, under the mutex, so computeCond.wait never blocks.
NextComputeAlone ==
    \/ ComputeCall
    \/ ComputeHaltTest
    \/ ComputeHaltWait
    \/ ComputeSetWait
    \/ ComputeReady
    \/ ComputeClearWait
    \/ ComputeLock
    \/ ComputeCondWait
    \/ ComputeSetSync
    \/ ComputeGraph
    \/ ComputeLoopEnd
    \/ ComputeEndRun
    \/ ComputeReturn
    \/ ComputeDone

\* The chain built while the compute thread calls compute().
SpecChain == InitChain /\ [][NextAdd \/ NextComputeAlone]_vars

Spec == Init /\ [][Next]_vars

(***************************************************************************)
(* Fair scheduling.  A thread inside a call takes its next step; a thread  *)
(* blocked in lock() gets the mutex when it is released again and again;   *)
(* a computeReady() poll does not return TIMEOUT for ever.  Nothing makes  *)
(* a thread call the scheduler again, and no wake-up is spurious by need.  *)
(*                                                                         *)
(* The strong fairness of the three lock() steps is an assumption about    *)
(* the mutex, not something the code establishes: std::mutex promises no   *)
(* order among the threads blocked on it.  With weak fairness alone a      *)
(* thread that waits in lock() can be passed over for ever by a thread     *)
(* that takes and releases the mutex again and again.                      *)
(***************************************************************************)
\* The steps of lockState that wait for no other thread's lock.
AppStep ==
    \/ LockStateHalt
    \/ LockStateWait
    \/ LockStateSync
    \/ FnBegin
    \/ FnRebuild
    \/ FnClear
    \/ LockStateRelease
    \/ LockStateNotify
    \/ LockStateUnhalt

\* The steps inside compute() other than the polls and the lock.
ComputeStep ==
    \/ ComputeHaltTest
    \/ ComputeHaltWait
    \/ ComputeSetWait
    \/ ComputeClearWait
    \/ ComputeCondWait
    \/ ComputeSetSync
    \/ ComputeGraph
    \/ ComputeLoopEnd
    \/ ComputeEndRun
    \/ ComputeReturn
    \/ ComputeDone

\* A computeReady() that does not return TIMEOUT.
ComputeReadyAnswer == ComputeReady /\ (ci' = ci + 1 \/ pcC' = "idle")

\* The steps inside present() other than the lock.
PresentStep ==
    \/ PresentHaltTest
    \/ PresentSetSync
    \/ PresentCondWait
    \/ PresentModules
    \/ PresentClear
    \/ PresentReturn

Fairness ==
    /\ WF_vars(AppStep) /\ SF_vars(LockStateAcquire)
    /\ WF_vars(ComputeStep) /\ SF_vars(ComputeLock)
    /\ SF_vars(ComputeReadyAnswer)
    /\ SF_vars(ComputeReadyAnswer /\ ci' > Len(graphs))
    /\ WF_vars(PresentStep) /\ SF_vars(PresentLock)

SpecLive == Init /\ [][Next]_vars /\ Fairness

\* The three threads under fair scheduling, the application adding the two
\* modules that make the compute and the present pipeline.
InitPresent == InitWith(SchedNames, MaxLiveOps, VoidHist)

SpecPresent == InitPresent /\ [][Next]_vars /\ Fairness

(***************************************************************************)
(* Properties.                                                             *)
(***************************************************************************)
\* The compute thread is in the compute pass of compute(): computeSync is set
\* and the scope of the lock has not ended.
ComputePass == pcC \in {"run", "endrun"}

\* The present thread is in the loop over the present modules.
PresentPass == pcP = "run"

\* The application thread is executing the function given to lockState.
Mutation == pcA \in {"fn", "fn2"}

\* addModule or removeModule has returned from lockState (removeModule on a
\* scheduler that is not running returns before it and rebuilds nothing).
MutationReturned == pcA = "idle" /\ op.kind \in {"add", "remove"} /\ running

\* addModule or removeModule has returned success.
RebuildSucceeded == MutationReturned /\ appRet = "SUCCESS"

\* C1: at most one of the compute pass, the present pass and the function
\* given to lockState is in progress at any instant.
MutualExclusion ==
    /\ ~(ComputePass /\ PresentPass)
    /\ ~(ComputePass /\ Mutation)
    /\ ~(PresentPass /\ Mutation)

\* The compute pass runs while the present thread and lockState wait for the
\* mutex.
MutualExclusionWitness == pcC = "run" /\ pcP = "lock" /\ pcA = "lock"

\* C2: no function given to lockState runs between the first computeReady()
\* and the last graph->compute() of one compute() call: the pass computes on
\* the graphs its barrier polled.
MutationAtomicity == ComputePass => mutated # "dirty"

\* C3: after a successful rebuild executionOrder lists every valid module
\* once, and the producer of the locale of every active input of a module
\* stands before that module.
TopologicalOrder ==
    RebuildSucceeded =>
        /\ Range(executionOrder) = DOMAIN validComputeModuleStates
        /\ Len(executionOrder) = Cardinality(DOMAIN validComputeModuleStates)
        /\ \A i \in 1..Len(executionOrder) :
             \A p \in validComputeModuleStates[executionOrder[i]].activeInputs :
               \E j \in 1..(i - 1) :
                 \E o \in validComputeModuleStates[executionOrder[j]].activeOutputs :
                    OutputMap(executionOrder[j])[o].locale
                      = InputMap(executionOrder[i])[p].locale

\* A rebuild has ordered a module with two producers behind both of them.
TopologicalOrderWitness ==
    RebuildSucceeded /\ executionOrder = <<"A", "B", "C">>

\* Module a has an active output whose locale an active input of b carries.
Feeds(a, b) ==
    \E o \in computeModuleStates[a].activeOutputs :
      \E p \in computeModuleStates[b].activeInputs :
         OutputMap(a)[o].locale = InputMap(b)[p].locale

RECURSIVE Downstream(_, _)
Downstream(S, k) ==
    IF k = 0 THEN S
    ELSE Downstream(S \cup {b \in DOMAIN computeModuleStates :
                              \E a \in S : Feeds(a, b)}, k - 1)

\* The registered modules have a dependency cycle among active ports.
HasCycle ==
    \E n \in DOMAIN computeModuleStates :
       n \in Downstream({b \in DOMAIN computeModuleStates : Feeds(n, b)},
                        Cardinality(DOMAIN computeModuleStates))

\* C4: when addModule or removeModule leaves the registered modules with a
\* dependency cycle, it returns the cycle error and the graph list is empty.
CycleLeavesEmpty ==
    (MutationReturned /\ HasCycle) => (appRet = "FATAL" /\ graphs = <<>>)

\* C5: a compute() call that reached its compute pass returns SUCCESS when
\* the pass ended with SUCCESS, TIMEOUT or SKIP, and the result of the pass
\* in every other case.
UnderrunAbsorption ==
    pcC = "done" =>
        /\ cres \in {"SUCCESS", "TIMEOUT", "SKIP"} => cret = "SUCCESS"
        /\ cres \notin {"SUCCESS", "TIMEOUT", "SKIP"} => cret = cres

\* compute() has returned SUCCESS for a pass that a graph ended with SKIP.
UnderrunAbsorptionWitness == pcC = "done" /\ cres = "SKIP" /\ cret = "SUCCESS"

\* The present thread has raised presentSync and waits to run its pass.
PresentWaiting == pcP \in {"lock", "cond", "sleep"}

\* C6: while the present thread has raised presentSync and waits to run, the
\* compute thread, not yet in its compute pass, does not enter it.
PresentPriority ==
    [][(PresentWaiting /\ ~ComputePass) => ~ComputePass']_vars

\* C7: after a successful rebuild, what an executor's wired outputs share
\* with the wired inputs of the next executor is externally wired on both.
AdjacentExternallyWired ==
    RebuildSucceeded =>
        \A i \in 1..(Len(graphs) - 1) :
           LET common == graphs[i].wiredOutputs \cap graphs[i + 1].wiredInputs
           IN /\ common \subseteq graphs[i].externallyWiredOutputs
              /\ common \subseteq graphs[i + 1].externallyWiredInputs

\* C8: after a successful rebuild, an active output of a module of one
\* executor that a module of another executor has as an active input is
\* externally wired on both executors.
CrossExecutorWired ==
    RebuildSucceeded =>
        \A i \in 1..Len(graphs) : \A j \in (1..Len(graphs)) \ {i} :
          \A n \in Range(graphs[i].modules) : \A m \in Range(graphs[j].modules) :
            \A o \in validComputeModuleStates[n].activeOutputs :
              \A p \in validComputeModuleStates[m].activeInputs :
                 OutputMap(n)[o].locale = InputMap(m)[p].locale
                 => /\ OutputMap(n)[o].locale \in graphs[i].externallyWiredOutputs
                    /\ InputMap(m)[p].locale \in graphs[j].externallyWiredInputs

\* The modules registered with the scheduler.
Registered == (DOMAIN computeModuleStates) \cup presentModuleStates

\* The ports of the registered modules that carry hash h.
PortCount(h) ==
    Cardinality(UNION {
        {<<n, "input", p>> : p \in {q \in DOMAIN InputMap(n) : InputMap(n)[q].hash = h}}
        \cup {<<n, "output", p>> : p \in {q \in DOMAIN OutputMap(n) : OutputMap(n)[q].hash = h}}
        : n \in Registered})

\* C9: after every addModule or removeModule a port of a registered compute
\* module is active exactly when more than one port of the registered modules
\* carries its hash.
ActiveIffConnected ==
    MutationReturned =>
        \A n \in DOMAIN computeModuleStates :
           /\ \A p \in DOMAIN InputMap(n) :
                 p \in computeModuleStates[n].activeInputs
                 <=> PortCount(InputMap(n)[p].hash) > 1
           /\ \A p \in DOMAIN OutputMap(n) :
                 p \in computeModuleStates[n].activeOutputs
                 <=> PortCount(OutputMap(n)[p].hash) > 1

\* C10: a successful removeModule of the module a successful addModule has
\* just added restores the valid modules, the active ports and the partition
\* into executors that the addModule found.
RemoveReversesAdd == hist.stage = "removed" => Snapshot = hist.snap

\* Valid modules a and b are linked: an active output of one carries the
\* locale of an active input of the other.
ValidFeeds(a, b) ==
    \E o \in validComputeModuleStates[a].activeOutputs :
      \E p \in validComputeModuleStates[b].activeInputs :
         OutputMap(a)[o].locale = InputMap(b)[p].locale

RECURSIVE Connected(_, _)
Connected(S, k) ==
    IF k = 0 THEN S
    ELSE Connected(S \cup {b \in DOMAIN validComputeModuleStates :
                             \E a \in S : ValidFeeds(a, b) \/ ValidFeeds(b, a)},
                   k - 1)

\* The valid modules joined with n by a chain of producer/consumer links.
ClusterOf(n) == Connected({n}, Cardinality(DOMAIN validComputeModuleStates))

Clusters == {ClusterOf(n) : n \in DOMAIN validComputeModuleStates}

\* Every cluster of the valid modules resides on one device.
SingleDeviceClusters ==
    \A c \in Clusters : \A a \in c : \A b \in c : ModuleDevice(a) = ModuleDevice(b)

\* C11: after a successful rebuild of mutually unconnected clusters, each on
\* one device, there are as many cluster ids and as many executors as
\* clusters, and every executor holds all the modules of one cluster, a
\* producer before its consumers.
ClusterPerExecutor ==
    (RebuildSucceeded /\ SingleDeviceClusters) =>
        /\ Cardinality({validComputeModuleStates[n].clusterId :
                           n \in DOMAIN validComputeModuleStates})
             = Cardinality(Clusters)
        /\ Len(graphs) = Cardinality(Clusters)
        /\ \A i \in 1..Len(graphs) :
             /\ Range(graphs[i].modules) \in Clusters
             /\ \A j \in 1..Len(graphs[i].modules) :
                  \A k \in 1..Len(graphs[i].modules) :
                     ValidFeeds(graphs[i].modules[j], graphs[i].modules[k]) => j < k

\* clusterId of the modules of entry i of deviceExecutionOrder.
RunClusters(i) ==
    {validComputeModuleStates[n].clusterId : n \in Range(deviceExecutionOrder[i].run)}

\* C12: after a successful rebuild every entry of deviceExecutionOrder has a
\* non-empty run of modules of its device and of one cluster, and two
\* consecutive entries differ in device or in cluster.
DeviceRunsWellFormed ==
    RebuildSucceeded =>
        /\ \A i \in 1..Len(deviceExecutionOrder) :
             /\ deviceExecutionOrder[i].run # <<>>
             /\ \A n \in Range(deviceExecutionOrder[i].run) :
                   ModuleDevice(n) = deviceExecutionOrder[i].device
             /\ Cardinality(RunClusters(i)) = 1
        /\ \A i \in 1..(Len(deviceExecutionOrder) - 1) :
             \/ deviceExecutionOrder[i].device # deviceExecutionOrder[i + 1].device
             \/ RunClusters(i) # RunClusters(i + 1)

\* A rebuild has split four modules of one device into two runs of two, one
\* per cluster.
DeviceRunsWellFormedWitness ==
    /\ RebuildSucceeded
    /\ Len(deviceExecutionOrder) = 2
    /\ Len(deviceExecutionOrder[1].run) = 2
    /\ Len(deviceExecutionOrder[2].run) = 2
    /\ deviceExecutionOrder[1].device = deviceExecutionOrder[2].device

\* The locales of the active ports of valid module n.
ActiveLocales(n) ==
    {InputMap(n)[p].locale : p \in validComputeModuleStates[n].activeInputs}
    \cup {OutputMap(n)[o].locale : o \in validComputeModuleStates[n].activeOutputs}

\* C13: after a successful rebuild every valid module has a clusterId below
\* the number of clusters, two valid modules have the same clusterId exactly
\* when a chain of producer/consumer links over active ports joins them, and
\* modules of different clusterId share no active port.
ClusterIdsPartition ==
    RebuildSucceeded =>
        /\ \A n \in DOMAIN validComputeModuleStates :
              validComputeModuleStates[n].clusterId \in 0..(Cardinality(Clusters) - 1)
        /\ \A a \in DOMAIN validComputeModuleStates :
             \A b \in DOMAIN validComputeModuleStates :
                /\ (validComputeModuleStates[a].clusterId
                      = validComputeModuleStates[b].clusterId) <=> (b \in ClusterOf(a))
                /\ (validComputeModuleStates[a].clusterId
                      # validComputeModuleStates[b].clusterId)
                   => ActiveLocales(a) \cap ActiveLocales(b) = {}

\* A rebuild has numbered two clusters of two modules, one of them over two
\* devices.
ClusterIdsPartitionWitness ==
    /\ RebuildSucceeded
    /\ Cardinality(Clusters) = 2
    /\ \A c \in Clusters : Cardinality(c) = 2
    /\ "T" \in DOMAIN validComputeModuleStates

\* The rebuild of addModule or removeModule ends with the error of a
\* graph->create().
CreateFailed == pcA = "fn2" /\ pcA' = "release" /\ fnRes' = "ERROR"

\* C14: when graph->create() fails during a rebuild, the function of
\* addModule / removeModule ends with that error and leaves no graph, created
\* or not, in the list compute() iterates.
CreateFailureLeavesEmpty == [][CreateFailed => graphs' = <<>>]_vars

\* The compute thread is in its readiness barrier: it has set computeWait and
\* polls computeReady() over the graph list.
InBarrier == pcC = "poll"

\* C15: the function given to lockState never runs while the compute thread
\* is inside its readiness barrier.
BarrierExcludesFn == ~(Mutation /\ InBarrier)

\* C16: under fair scheduling every addModule, removeModule and destroy call
\* returns.
MutationReturns == (pcA # "idle") ~> (pcA = "idle")

DestroyReturned == pcA = "idle" /\ op.kind = "destroy" /\ appRet = "SUCCESS"

\* C18: after destroy() has returned success the scheduler is not running,
\* its maps, orders and graph list are empty, compute() has no graph to
\* invoke and present() no module; when destroy() clears the state, destroy()
\* has been called on every graph.
DestroyClears ==
    /\ (pcA = "fn2" /\ op.kind = "destroy")
          => \A i \in 1..Len(graphs) : graphs[i].state = "destroyed"
    /\ DestroyReturned =>
          /\ ~running
          /\ computeModuleStates = <<>> /\ presentModuleStates = {}
          /\ validComputeModuleStates = <<>> /\ validPresentModuleStates = {}
          /\ executionOrder = <<>> /\ deviceExecutionOrder = <<>>
          /\ graphs = <<>>
          /\ ~(pcC \in {"poll", "run"} /\ ci <= Len(graphs))
          /\ ~(pcP = "run" /\ validPresentModuleStates # {})

\* destroy() has returned and the compute thread, which was past its barrier,
\* runs its compute pass.
DestroyClearsWitness == DestroyReturned /\ pcC = "run"

\* The application thread calls removeModule.
RemoveCalled == pcA = "idle" /\ opsLeft' = opsLeft - 1 /\ op'.kind = "remove"

\* C19: removeModule on a scheduler that is not running returns success
\* without lockState and changes nothing: no graph, map or flag.
RemoveWhenStopped ==
    [][(RemoveCalled /\ ~running) =>
          /\ pcA' = "idle" /\ appRet' = "SUCCESS"
          /\ UNCHANGED <<graphVars, flagVars, sharedMutex>>]_vars

\* removeModule has returned on a scheduler that is not running.
RemoveWhenStoppedWitness ==
    pcA = "idle" /\ op.kind = "remove" /\ ~running /\ appRet = "SUCCESS"

\* A valid module m has an active input and an active output of one hash, and
\* another valid module n has an active input of that hash.
InplaceBranch ==
    \E m \in DOMAIN validComputeModuleStates :
      \E n \in (DOMAIN validComputeModuleStates) \ {m} :
        \E p \in validComputeModuleStates[m].activeInputs :
          /\ \E o \in validComputeModuleStates[m].activeOutputs :
                OutputMap(m)[o].hash = InputMap(m)[p].hash
          /\ \E q \in validComputeModuleStates[n].activeInputs :
                InputMap(n)[q].hash = InputMap(m)[p].hash

\* C20: a successful rebuild of modules of which one works in place on a
\* hash that another module consumes too has logged the warning of
\* checkSequenceValidity, which let the rebuild go on.
InplaceWarned ==
    (RebuildSucceeded /\ InplaceBranch) =>
        \A cs \in checkSequenceValidity(validComputeModuleStates, executionOrder) :
           cs.res = "SUCCESS" /\ cs.warned

(***************************************************************************)
(* C21: a linear chain on one device.                                      *)
(***************************************************************************)
\* The valid modules in the order of the chain.
ChainOrder == SelectSeq(Chain, LAMBDA n : n \in DOMAIN validComputeModuleStates)

\* C21: while the chain is built by addModule calls and compute() runs on
\* another thread, every successful rebuild that leaves valid modules gives
\* one cluster and exactly one executor, on the CPU, that lists the connected
\* modules in the order of the chain, as does executionOrder.
ChainOneExecutor ==
    (RebuildSucceeded /\ DOMAIN validComputeModuleStates # {}) =>
        /\ Cardinality({validComputeModuleStates[n].clusterId :
                            n \in DOMAIN validComputeModuleStates}) = 1
        /\ executionOrder = ChainOrder
        /\ Len(graphs) = 1
        /\ graphs[1].device = "CPU"
        /\ graphs[1].modules = ChainOrder

\* H has been added to E -> F -> G during a compute() call and the one
\* executor lists the four modules.
ChainOneExecutorWitness ==
    /\ RebuildSucceeded /\ op = [kind |-> "add", name |-> "H"]
    /\ pcC # "idle"
    /\ Len(graphs) = 1 /\ graphs[1].modules = Chain


(***************************************************************************)
(* C22: stale modules.                                                     *)
(***************************************************************************)
\* A registered module that has no active input and no active output.
Stale(n) ==
    \/ n \notin DOMAIN computeModuleStates
    \/ /\ computeModuleStates[n].activeInputs = {}
       /\ computeModuleStates[n].activeOutputs = {}

\* C22: after a rebuild, a registered module without active inputs and
\* outputs, whichever of Compute and Present it has, is in neither
\* executionOrder, nor an executor, nor validPresentModuleStates.
StaleExcluded ==
    RebuildSucceeded =>
        \A n \in Registered :
            Stale(n) =>
                /\ n \notin Range(executionOrder)
                /\ \A i \in 1..Len(graphs) : n \notin Range(graphs[i].modules)
                /\ n \notin validPresentModuleStates


(***************************************************************************)
(* C23: removeInactive twice.                                              *)
(***************************************************************************)
PruneOnce == removeInactive(computeModuleStates, presentModuleStates)

PruneTwice == removeInactive(PruneOnce.computeModuleStates, presentModuleStates)

\* C23: over the registered modules of any state, removeInactive run twice
\* in a row leaves every module the active inputs and outputs, and the
\* scheduler the valid compute and valid present modules, that one run
\* leaves.
PruneIdempotent == PruneTwice = PruneOnce

\* The module maps have just been changed and removeInactive has work to do:
\* it makes ports active and leaves a registered module stale.
PruneIdempotentWitness ==
    /\ pcA = "fn2"
    /\ PruneOnce.computeModuleStates # computeModuleStates
    /\ DOMAIN PruneOnce.validComputeModuleStates # DOMAIN computeModuleStates
    /\ PruneOnce.validPresentModuleStates # {}


(***************************************************************************)
(* C24: recovery from a dependency cycle.                                  *)
(***************************************************************************)
\* C24: once an addModule has failed on a dependency cycle, a removeModule
\* or addModule that returns with registered modules free of cycles has not
\* failed on a cycle.
CycleRecovery ==
    (hist.stage = "recovered" /\ ~RegisteredCycle) => appRet # "FATAL"


(***************************************************************************)
(* C25: the return of present().                                           *)
(***************************************************************************)
\* present() returns from a pass that raised presentSync: on the error of a
\* module, with the mutex still held, or at the end.
PresentPassReturns == pcP \in {"run", "notify"} /\ pcP' = "idle"

\* C25: a step by which present() returns from a pass, with success or with
\* the error of a module, leaves no compute thread asleep on computeCond,
\* and when it returns from under the mutex presentSync is false after it.
PresentReturnClears ==
    [][PresentPassReturns =>
          /\ pcC' # "sleep"
          /\ pcP = "run" => ~presentSync']_vars


(***************************************************************************)
(* C26: computeWait outside the barrier.                                   *)
(***************************************************************************)
\* C26: computeWait is set only while the compute thread is inside the
\* barrier of compute(); it is false whenever the thread is elsewhere, after
\* compute() has returned the error of a computeReady() included.
WaitOnlyInBarrier == computeWait => InBarrier

(***************************************************************************)
(* C27: the executors compute() calls.                                     *)
(***************************************************************************)
\* C27: compute() calls computeReady() and compute() only on an executor
\* whose create() has succeeded and that has not been destroyed since.
ComputeOnCreated ==
    [][(ComputeReady \/ ComputeGraph) => graphs[ci].state = "created"]_vars

(***************************************************************************)
(* C28: the cycle error.                                                   *)
(***************************************************************************)
\* C28: addModule or removeModule returns the cycle error only when a chain
\* of producer-to-consumer links leads from a registered module back to
\* itself.
CycleErrorIsCycle ==
    (MutationReturned /\ appRet = "FATAL") => RegisteredCycle


(***************************************************************************)
(* C29: the return of lockState.                                           *)
(***************************************************************************)
\* C29: lockState, whatever func returned, resets computeSync and
\* presentSync and releases the mutex after func, then wakes the threads
\* asleep on the two condition variables, and when it returns the result of
\* func has been returned, both halt flags are clear, the application thread
\* does not hold the mutex and computeSync is set only by a compute pass.
LockStateRestores ==
    [][/\ (pcA = "release" /\ pcA' # "release") =>
             (~computeSync' /\ ~presentSync' /\ sharedMutex' = "free")
       /\ (pcA = "notify" /\ pcA' # "notify") =>
             (pcC' # "sleep" /\ pcP' # "sleep")
       /\ (pcA # "idle" /\ pcA' = "idle") =>
             /\ appRet' = fnRes
             /\ ~computeHalt' /\ ~presentHalt'
             /\ sharedMutex' # "app"
             /\ computeSync' => pcC' \in {"run", "endrun"}]_vars

\* An addModule whose func failed has returned the error and left neither
\* thread halted.
LockStateRestoresWitness ==
    /\ pcA = "idle" /\ op.kind = "add" /\ appRet = "ERROR"
    /\ ~computeHalt /\ ~presentHalt /\ sharedMutex # "app"


(***************************************************************************)
(* C30: compute() and present() under a halt.                              *)
(***************************************************************************)
\* C30: a compute() that has observed computeHalt set leaves its wait only
\* by returning SUCCESS, computeHalt being clear, without a computeReady()
\* or compute() call; a present() that observes presentHalt set returns
\* SUCCESS in that step and changes neither presentSync nor the mutex.
HaltObserved ==
    [][/\ (pcC = "haltwait" /\ pcC' # "haltwait") =>
             /\ pcC' = "idle" /\ cret' = "SUCCESS"
             /\ ~computeHalt
             /\ UNCHANGED <<ci, cres, mutated, graphs>>
       /\ (pcP = "halt" /\ presentHalt /\ pcP' # "halt") =>
             /\ pcP' = "idle" /\ pret' = "SUCCESS"
             /\ UNCHANGED <<presentSync, sharedMutex>>]_vars

\* During a lockState, compute() has observed computeHalt and waits on it,
\* and present() is at its test of presentHalt.
HaltObservedWitness ==
    /\ pcC = "haltwait" /\ computeHalt
    /\ pcP = "halt" /\ presentHalt


(***************************************************************************)
(* C31: the ports of Present-only modules in the hash count.               *)
(***************************************************************************)
\* C31: after a rebuild, a port of a registered compute module whose
\* non-zero hash is carried by more than one port of the registered modules,
\* those with the Present capability only included, is active, and its
\* module is valid.
PresentPortsCounted ==
    RebuildSucceeded =>
        \A n \in DOMAIN computeModuleStates :
            /\ \A p \in DOMAIN InputMap(n) :
                  (InputMap(n)[p].hash # 0 /\ PortCount(InputMap(n)[p].hash) > 1)
                  => /\ p \in computeModuleStates[n].activeInputs
                     /\ n \in DOMAIN validComputeModuleStates
            /\ \A o \in DOMAIN OutputMap(n) :
                  (OutputMap(n)[o].hash # 0 /\ PortCount(OutputMap(n)[o].hash) > 1)
                  => /\ o \in computeModuleStates[n].activeOutputs
                     /\ n \in DOMAIN validComputeModuleStates


(***************************************************************************)
(* C32: the order of the compute pass.                                     *)
(***************************************************************************)
\* C32: a compute pass starts at the first executor; each graph->compute()
\* is on the executor of the run of deviceExecutionOrder at the position of
\* the call, a SUCCESS moves to the next position and any other result ends
\* the calls of the pass.
ComputeInOrder ==
    [][/\ (pcC # "run" /\ pcC' = "run") => ci' = 1
       /\ ComputeGraph =>
             /\ ci <= Len(deviceExecutionOrder)
             /\ graphs[ci].device = deviceExecutionOrder[ci].device
             /\ graphs[ci].modules = deviceExecutionOrder[ci].run
             /\ IF cres' = "SUCCESS"
                THEN ci' = ci + 1 /\ pcC' = "run"
                ELSE pcC' = "endrun"
       /\ (pcC = "run" /\ ~ComputeGraph) => (pcC' = "endrun" \/ ci' = ci)]_vars


(***************************************************************************)
(* C33: executors destroyed and made anew.                                 *)
(***************************************************************************)
\* The rebuild of an addModule or removeModule, the destroy loop being over.
RebuildStep == pcA = "fn2" /\ pcA' = "release" /\ op.kind \in {"add", "remove"}

\* C33: when an addModule or removeModule rebuilds, every executor of before
\* has been destroyed, no destroyed executor is in the graph list after the
\* rebuild, and every executor on which create() has been called carries
\* the wiring and the external wiring that createExecutionGraphs gives it.
ExecutorsRenewed ==
    [][RebuildStep =>
          /\ \A i \in 1..Len(graphs) : graphs[i].state = "destroyed"
          /\ \A i \in 1..Len(graphs') : graphs'[i].state # "destroyed"
          /\ LET gs == createExecutionGraphs(validComputeModuleStates',
                                             deviceExecutionOrder')
             IN \A i \in 1..Len(graphs') :
                   graphs'[i].state \in {"created", "failed"} =>
                       /\ i <= Len(gs)
                       /\ [graphs'[i] EXCEPT !.state = "new"] = gs[i]]_vars


(***************************************************************************)
(* C34: executionOrder, deviceExecutionOrder and the executors.            *)
(***************************************************************************)
RECURSIVE ConcatRuns(_, _)
ConcatRuns(deo, i) ==
    IF i > Len(deo) THEN <<>> ELSE deo[i].run \o ConcatRuns(deo, i + 1)

\* C34: after a successful rebuild the runs of deviceExecutionOrder, one
\* after the other, are executionOrder; executionOrder holds every valid
\* module once; and the i-th executor holds the modules of the i-th run in
\* the order of the run.
RunsAreOrder ==
    RebuildSucceeded =>
        /\ ConcatRuns(deviceExecutionOrder, 1) = executionOrder
        /\ Range(executionOrder) = DOMAIN validComputeModuleStates
        /\ Len(executionOrder) = Cardinality(DOMAIN validComputeModuleStates)
        /\ Len(graphs) = Len(deviceExecutionOrder)
        /\ \A i \in 1..Len(graphs) :
               graphs[i].modules = deviceExecutionOrder[i].run

\* A successful rebuild has given two runs, the first of two modules.
RunsAreOrderWitness ==
    /\ RebuildSucceeded
    /\ Len(deviceExecutionOrder) = 2 /\ Len(graphs) = 2
    /\ Len(deviceExecutionOrder[1].run) = 2


(***************************************************************************)
(* C35: the device of the module appended next.                            *)
(***************************************************************************)
\* An iteration appends a module whose device is not the device of the
\* module appended before it.
DeviceSwitch ==
    /\ executionOrder # <<>>
    /\ Len(executionOrder') = Len(executionOrder) + 1
    /\ ModuleDevice(executionOrder'[Len(executionOrder')])
         # ModuleDevice(executionOrder[Len(executionOrder)])

ZeroInputs(n) == {p \in DOMAIN InputMap(n) : InputMap(n)[p].hash = 0}

ZeroOutputs(n) == {o \in DOMAIN OutputMap(n) : OutputMap(n)[o].hash = 0}

\* C37: no port whose hash is 0 is ever in activeInputs or activeOutputs,
\* however many registered ports carry hash 0, and after a rebuild a module
\* all of whose ports have hash 0 is not valid.
ZeroHashInactive ==
    /\ \A n \in DOMAIN computeModuleStates :
          /\ computeModuleStates[n].activeInputs \cap ZeroInputs(n) = {}
          /\ computeModuleStates[n].activeOutputs \cap ZeroOutputs(n) = {}
    /\ RebuildSucceeded =>
          \A n \in DOMAIN validComputeModuleStates :
             \/ ZeroInputs(n) # DOMAIN InputMap(n)
             \/ ZeroOutputs(n) # DOMAIN OutputMap(n)

\* Two registered ports carry hash 0, the output of Z and an input of W; W
\* is valid through its other input and Z is stale.
ZeroHashInactiveWitness ==
    /\ RebuildSucceeded
    /\ {"Z", "W"} \subseteq DOMAIN computeModuleStates
    /\ "W" \in DOMAIN validComputeModuleStates
    /\ "Z" \notin DOMAIN validComputeModuleStates


(***************************************************************************)
(* C38: the externally wired sets.                                         *)
(***************************************************************************)
\* C38: every externally wired input of an executor is one of its wired
\* inputs and a wired output of an executor before it in the list, and every
\* externally wired output is one of its wired outputs and a wired input of
\* an executor after it.
ExternallyWiredSound ==
    \A i \in 1..Len(graphs) :
        /\ graphs[i].externallyWiredInputs \subseteq graphs[i].wiredInputs
        /\ \A x \in graphs[i].externallyWiredInputs :
              \E j \in 1..(i - 1) : x \in graphs[j].wiredOutputs
        /\ graphs[i].externallyWiredOutputs \subseteq graphs[i].wiredOutputs
        /\ \A x \in graphs[i].externallyWiredOutputs :
              \E j \in (i + 1)..Len(graphs) : x \in graphs[j].wiredInputs

\* A rebuild has given two executors, the second reading an output of the
\* first.
ExternallyWiredSoundWitness ==
    /\ RebuildSucceeded /\ Len(graphs) >= 2
    /\ graphs[2].externallyWiredInputs # {}
    /\ graphs[1].externallyWiredOutputs # {}


=============================================================================
